---- MODULE Spec2Model ----
(***************************************************************************)
(* Replication and recovery subsystem of the three-node transaction store. *)
(* Node 0 is the central node and hosts the replication_queue table;       *)
(* nodes 1 and 2 are the partitions.  Every handler is split at its await  *)
(* points (one database round trip per step), so that concurrent requests  *)
(* interleave exactly where the event loop lets them.                      *)
(***************************************************************************)
EXTENDS Integers, Sequences, FiniteSets, TLC

\* ------------------------------------------------------------------ bounds
MaxTransId == 1      \* trans_id values are 1..MaxTransId
MaxJobs == 2         \* rows ever inserted into replication_queue
MaxRequests == 1     \* transactions-API requests ever started
MaxRows == 2         \* rows of node 0 that a recovery sync scans
MaxScanned == 101    \* rows of node 0 in the long-table scan

\* ------------------------------------------------------------ value domains
Nodes == {0, 1, 2}
Partitions == {1, 2}
TransIds == 1..MaxTransId
Amounts == {100, 200}
Workers == {"w1", "w2"}
Clients == {"c1", "c2"}
OpTypes == {"INSERT", "UPDATE", "DELETE"}

\* A node id that getPool does not know (its default case throws).
InvalidNode == 3
ValidNode(n) == n \in Nodes

\* A column value that may be SQL NULL: <<>> is NULL, <<n>> is the number n.
\* A JavaScript property that is undefined is a field missing from the record.
SqlNull == <<>>
AccountIds == {<<1>>, <<2>>}

\* The object with no properties ({} in JavaScript, or a null payload).
NoFields == [f \in {} |-> 0]

VARIABLES
    db,        \* db[n]: the rows of table trans on node n
    healthy,   \* healthy[n]: node n answers queries
    queue,     \* table replication_queue on node 0, in creation order
    worker,    \* worker[w]: one invocation of GET /api/worker
    client,    \* client[c]: one request to /api/transactions or /api/replication
    nreq,      \* requests started so far
    recovery   \* one request to /api/recovery/test, test case 4

vars == <<db, healthy, queue, worker, client, nreq, recovery>>

\* -------------------------------------------------------- TransactionService
RowsById(n, id) == {r \in db[n] : r.trans_id = id}

\* DatasetRow is defined with the initial state; the stale read below hands
\* out a row for an id the table does not hold.
getTransactionById_Stale(n, id) ==
    IF RowsById(n, id) = {}
    THEN {[trans_id |-> id, account_id |-> <<id>>, operation |-> "op", amount |-> 100]}
    ELSE RowsById(n, id)

\* getTransactionById: the row, wrapped in a set ({} when there is none).
getTransactionById(n, id) == RowsById(n, id)

Exists(n, id) == RowsById(n, id) # {}

\* INSERT INTO trans: query() sends an undefined parameter as NULL.
InsertRow(table, id, t) ==
    table \cup {[trans_id |-> id,
                 account_id |-> IF "account_id" \in DOMAIN t THEN t.account_id ELSE SqlNull,
                 operation |-> t.operation,
                 amount |-> t.amount]}

\* createTransaction stores only trans_id, operation, amount, balance.
createTransaction(table, id, data) ==
    table \cup {[trans_id |-> id, account_id |-> SqlNull,
                 operation |-> data.operation, amount |-> data.amount]}

\* updateTransaction: SET every property of data on the row with this id.
UpdatedRow(r, data) == [f \in DOMAIN r |-> IF f \in DOMAIN data THEN data[f] ELSE r[f]]

updateTransaction(table, id, data) ==
    {IF r.trans_id = id THEN UpdatedRow(r, data) ELSE r : r \in table}

\* affectedRows > 0, and false without a query when data has no property.
updateTransactionResult(table, id, data) ==
    DOMAIN data # {} /\ \E r \in table : r.trans_id = id

deleteTransaction(table, id) == {r \in table : r.trans_id # id}

deleteTransactionResult(table, id) == \E r \in table : r.trans_id = id

\* ------------------------------------------------------- ReplicationService
\* account_id % 2 === 0 ? 2 : 1, with undefined % 2 = NaN and null % 2 = 0.
determinePartitionNode(t) ==
    IF "account_id" \notin DOMAIN t THEN 1
    ELSE IF t.account_id = SqlNull THEN 2
    ELSE IF t.account_id[1] % 2 = 0 THEN 2 ELSE 1

\* --------------------------------------------------------------- the queue
Job(id, target, type, transId, payload) ==
    [id |-> id, target_node_id |-> target, operation_type |-> type,
     trans_id |-> transId, payload |-> payload, status |-> "PENDING", retries |-> 0]

\* SELECT * FROM replication_queue WHERE status = 'PENDING'
\* ORDER BY created_at ASC LIMIT 1: the index of the row, 0 when there is none.
PendingIdx == {i \in 1..Len(queue) : queue[i].status = "PENDING"}

OldestPending == IF PendingIdx = {} THEN 0
                 ELSE CHOOSE i \in PendingIdx : \A k \in PendingIdx : i <= k

\* A claim that picks the job up without counting the attempt.
MarkProcessing_KeepRetries(q, id) ==
    [i \in 1..Len(q) |-> IF q[i].id = id THEN [q[i] EXCEPT !.status = "PROCESSING"] ELSE q[i]]

\* UPDATE replication_queue SET status = 'PROCESSING', retries = retries + 1 WHERE id = ?
MarkProcessing(q, id) ==
    [i \in 1..Len(q) |->
        IF q[i].id = id
        THEN [q[i] EXCEPT !.status = "PROCESSING", !.retries = @ + 1]
        ELSE q[i]]

\* A completion that also clears the payload of the finished job.
markJobComplete_DropPayload(q, id) ==
    [i \in 1..Len(q) |->
        IF q[i].id = id THEN [q[i] EXCEPT !.status = "COMPLETE", !.payload = <<>>] ELSE q[i]]

\* UPDATE replication_queue SET status = 'COMPLETE' WHERE id = ?
markJobComplete(q, id) ==
    [i \in 1..Len(q) |-> IF q[i].id = id THEN [q[i] EXCEPT !.status = "COMPLETE"] ELSE q[i]]

\* --------------------------------------------------------------- initial state
\* The stores hold the loaded data set: a record is on node 0 and, with the
\* same row, on the partition of its account.
DatasetRow(id) == [trans_id |-> id, account_id |-> <<id>>, operation |-> "op", amount |-> 100]

Datasets == {[n \in Nodes |->
                {DatasetRow(id) : id \in {i \in S : n = 0 \/ determinePartitionNode(DatasetRow(i)) = n}}]
             : S \in SUBSET TransIds}

WorkerIdle == [pc |-> "idle", job |-> <<>>, success |-> FALSE, error |-> "none",
               jobStatus |-> "none"]

ClientIdle == [pc |-> "idle", kind |-> "none", nodeId |-> 0, transId |-> 0,
               tx |-> NoFields, updates |-> NoFields, op |-> "none", target |-> 0,
               errors |-> <<>>, log |-> "none", result |-> <<>>,
               response |-> [status |-> 0, success |-> FALSE]]

\* details is "none" until the handler returns; the counters of the result
\* are 0 where the code leaves them out.
RecoveryIdle == [pc |-> "idle", nodeId |-> 0, nodeJobs |-> <<>>, i |-> 0,
                 queueProcessed |-> 0, queueFailed |-> 0,
                 rows |-> <<>>, k |-> 0, synced |-> 0,
                 startEmpty |-> FALSE, applied |-> 0, unapplied |-> 0,
                 testCase |-> 0, transId |-> 0, transaction |-> <<>>,
                 sync |-> <<>>, result |-> <<>>]

Init ==
    /\ db \in Datasets
    /\ healthy = [n \in Nodes |-> TRUE]
    /\ queue = <<>>
    /\ worker = [w \in Workers |-> WorkerIdle]
    /\ client = [c \in Clients |-> ClientIdle]
    /\ nreq = 0
    /\ recovery = RecoveryIdle

\* ------------------------------------------------------------- environment
NodeFail(n) ==
    /\ healthy[n]
    /\ healthy' = [healthy EXCEPT ![n] = FALSE]
    /\ UNCHANGED <<db, queue, worker, client, nreq, recovery>>

NodeRecover(n) ==
    /\ ~healthy[n]
    /\ healthy' = [healthy EXCEPT ![n] = TRUE]
    /\ UNCHANGED <<db, queue, worker, client, nreq, recovery>>

\* -------------------------------------------------- PersistenceService.enqueue
\* The payload column: <<>> is NULL (no data given), <<obj>> the object
\* that getNextJob parses back from the stored JSON text.
PayloadOf(op) == IF op.data = <<>> THEN <<>> ELSE <<op.data[1]>>

\* The operations enqueue accepts (QueuePayload): an INSERT with the full
\* transaction, an UPDATE with the update fields, a DELETE without data.
QueuePayloads ==
    {[transId |-> id, targetNodeId |-> n, type |-> "INSERT", data |-> <<DatasetRow(id)>>]
        : id \in TransIds, n \in Nodes}
    \cup {[transId |-> id, targetNodeId |-> n, type |-> "UPDATE", data |-> <<[amount |-> 200]>>]
        : id \in TransIds, n \in Nodes}
    \cup {[transId |-> id, targetNodeId |-> n, type |-> "DELETE", data |-> <<>>]
        : id \in TransIds, n \in Nodes}

\* INSERT INTO replication_queue ... 'PENDING'; an error is logged and swallowed.
enqueue(q, op) ==
    IF healthy[0]
    THEN Append(q, Job(Len(q) + 1, op.targetNodeId, op.type, op.transId, PayloadOf(op)))
    ELSE q

Enqueue(op) ==
    /\ Len(queue) < MaxJobs
    /\ queue' = enqueue(queue, op)
    /\ UNCHANGED <<db, healthy, worker, client, nreq, recovery>>

\* ------------------------------------------------------ GET /api/worker
\* A worker is one scheduled caller; pc "done" is the response sent, from
\* which its next invocation starts afresh.
\* getNextJob, first query: SELECT the oldest PENDING row.
WorkerSelect(w) ==
    /\ worker[w].pc \in {"idle", "done"}
    /\ IF healthy[0] /\ OldestPending # 0
       THEN worker' = [worker EXCEPT ![w] =
                [WorkerIdle EXCEPT !.pc = "update", !.job = <<queue[OldestPending]>>]]
       ELSE \* no row, or the query threw and getNextJob returned null
            worker' = [worker EXCEPT ![w] =
                [WorkerIdle EXCEPT !.pc = "done", !.jobStatus = "EMPTY"]]
    /\ UNCHANGED <<db, healthy, queue, client, nreq, recovery>>

\* getNextJob, second query: mark the selected row PROCESSING and return it.
WorkerUpdate(w) ==
    /\ worker[w].pc = "update"
    /\ IF healthy[0]
       THEN /\ queue' = MarkProcessing(queue, worker[w].job[1].id)
            /\ worker' = [worker EXCEPT ![w] = [@ EXCEPT !.pc = "probe"]]
       ELSE /\ queue' = queue
            /\ worker' = [worker EXCEPT ![w] =
                [@ EXCEPT !.pc = "done", !.job = <<>>, !.jobStatus = "EMPTY"]]
    /\ UNCHANGED <<db, healthy, client, nreq, recovery>>

\* executeJob: checkNodeHealth(job.target_node_id).
WorkerProbe(w) ==
    /\ worker[w].pc = "probe"
    /\ IF healthy[worker[w].job[1].target_node_id]
       THEN worker' = [worker EXCEPT ![w] = [@ EXCEPT !.pc = "exec"]]
       ELSE \* "still down, skipping retry": the row stays PROCESSING
            worker' = [worker EXCEPT ![w] =
                [@ EXCEPT !.pc = "done", !.success = FALSE, !.error = "unhealthy",
                          !.jobStatus = "RETRY_NEEDED"]]
    /\ UNCHANGED <<db, healthy, queue, client, nreq, recovery>>

\* executeJob, the try block: the error the catch logs ("none": no throw).
\* The INSERT is sent with an empty parameter list, so its placeholders
\* reach the server unbound and the statement is rejected.
ExecError(job) ==
    IF ~healthy[job.target_node_id] THEN "ECONNREFUSED"
    ELSE IF job.operation_type = "INSERT" THEN "ER_PARSE_ERROR"
    ELSE IF job.operation_type = "UPDATE" /\ job.payload = <<>> THEN "TypeError"
    ELSE "none"

\* executeJob, the try block: the target's table after the statement.
ExecTable(job) ==
    LET t == job.target_node_id IN
    IF ExecError(job) # "none" THEN db[t]
    ELSE IF job.operation_type = "UPDATE"
         THEN updateTransaction(db[t], job.trans_id, job.payload[1])
    ELSE IF job.operation_type = "DELETE"
         THEN deleteTransaction(db[t], job.trans_id)
    ELSE db[t]

WorkerExec(w) ==
    /\ worker[w].pc = "exec"
    /\ LET job == worker[w].job[1]
           err == ExecError(job)
       IN /\ db' = [db EXCEPT ![job.target_node_id] = ExecTable(job)]
          /\ worker' = [worker EXCEPT ![w] =
                [@ EXCEPT !.pc = IF err = "none" THEN "mark" ELSE "done",
                          !.success = (err = "none"),
                          !.error = err,
                          !.jobStatus = IF err = "none" THEN "none" ELSE "RETRY_NEEDED"]]
    /\ UNCHANGED <<healthy, queue, client, nreq, recovery>>

\* GET: if (success) markJobComplete(job.id); else the row is left as it is.
WorkerMark(w) ==
    /\ worker[w].pc = "mark"
    /\ IF healthy[0]
       THEN /\ queue' = markJobComplete(queue, worker[w].job[1].id)
            /\ worker' = [worker EXCEPT ![w] = [@ EXCEPT !.pc = "done", !.jobStatus = "COMPLETE"]]
       ELSE \* markJobComplete throws and the request ends with a 500
            /\ queue' = queue
            /\ worker' = [worker EXCEPT ![w] = [@ EXCEPT !.pc = "done", !.jobStatus = "ERROR_500"]]
    /\ UNCHANGED <<db, healthy, client, nreq, recovery>>

WorkerStep(w) ==
    \/ WorkerSelect(w)
    \/ WorkerUpdate(w)
    \/ WorkerProbe(w)
    \/ WorkerExec(w)
    \/ WorkerMark(w)

\* ------------------------------------------------ specification: the queue
NextQueue ==
    \/ \E n \in Nodes : NodeFail(n)
    \/ \E n \in Nodes : NodeRecover(n)
    \/ \E op \in QueuePayloads : Enqueue(op)
    \/ \E w \in Workers : WorkerStep(w)

SpecQueue == Init /\ [][NextQueue]_vars

\* One scheduled worker, invoked again and again (the recurring schedule).
NextQueueOne ==
    \/ \E n \in Nodes : NodeFail(n)
    \/ \E n \in Nodes : NodeRecover(n)
    \/ \E op \in QueuePayloads : Enqueue(op)
    \/ WorkerStep("w1")

SpecQueueFair == Init /\ [][NextQueueOne]_vars /\ WF_vars(WorkerStep("w1"))


\* ------------------------------------- specification: one caller of getNextJob
\* Deletes queued for any target, in any order, while one node at a time
\* fails and comes back; one worker calls getNextJob again and again.
DeletePayloads == {op \in QueuePayloads : op.type = "DELETE"}

NextClaim ==
    \/ \E n \in Nodes : (\A m \in Nodes : healthy[m]) /\ NodeFail(n)
    \/ \E n \in Nodes : NodeRecover(n)
    \/ \E op \in DeletePayloads : Enqueue(op)
    \/ WorkerStep("w1")

SpecClaim == Init /\ [][NextClaim]_vars

\* ------------------------------------------------------ /api/transactions
\* A client is one caller; pc "done" is the response received, from which its
\* next request starts afresh.
CanStart(c) == client[c].pc \in {"idle", "done"} /\ nreq < MaxRequests

\* The request bodies: a transaction with or without account_id, and the
\* update of one field or of none.
CreateInputs ==
    {[operation |-> "op", amount |-> 100]}
    \cup {[account_id |-> a, operation |-> "op", amount |-> 100] : a \in AccountIds}

UpdateInputs == {NoFields} \cup {[amount |-> a] : a \in Amounts}

\* A response whose success repeats the replication result.
ResponseSuccess_FromReplication(replicationResult) == replicationResult.success

\* POST, PUT, DELETE: success of the response once the local write is done.
ResponseSuccess(replicationResult) == TRUE

\* The handler answers without replicating: 400, 404, or 500 from its catch.
Reject(c, kind, nodeId, id, status) ==
    client' = [client EXCEPT ![c] =
        [ClientIdle EXCEPT !.pc = "done", !.kind = kind, !.nodeId = nodeId, !.transId = id,
                           !.response = [status |-> status, success |-> FALSE]]]

\* replicateInsert / replicateUpdate / replicateDelete return
\* {success: errors.length === 0, errors} and the handler responds:
\* /api/transactions with success: true, /api/replication with the result's.
Finish(c, errors, log) ==
    LET result == [success |-> errors = <<>>, errors |-> errors] IN
    client' = [client EXCEPT ![c] =
        [@ EXCEPT !.pc = "done", !.errors = errors, !.log = log, !.result = <<result>>,
                  !.response = [status |-> 200,
                                success |-> IF client[c].kind = "REPLICATION"
                                            THEN result.success
                                            ELSE ResponseSuccess(result)]]]

\* A catch that lets the error leave the replicate call: the route's own
\* catch answers 500 and no result is returned.
ReplicationCatch_Rethrow(c, message) ==
    client' = [client EXCEPT ![c] =
        [@ EXCEPT !.pc = "done", !.response = [status |-> 500, success |-> FALSE]]]

\* The catch of replicateInsert / replicateUpdate / replicateDelete:
\* errors.push(`Replication failed: ...`); return {success: false, errors}.
ReplicationCatch(c, message) == Finish(c, <<message>>, "none")

\* A router that sends every write to the central node.
TargetNode_AlwaysCentral(sourceNodeId, t) == 0

\* The destination of a replicated write of row t made on sourceNodeId.
TargetNode(sourceNodeId, t) == IF sourceNodeId = 0 THEN determinePartitionNode(t) ELSE 0

\* POST: createTransaction on the node, then replicateInsert is entered.
Post(c, nodeId, id, tx) ==
    /\ CanStart(c)
    /\ nreq' = nreq + 1
    /\ IF ~healthy[nodeId] \/ Exists(nodeId, id)
       THEN /\ Reject(c, "POST", nodeId, id, 500)
            /\ db' = db
       ELSE /\ db' = [db EXCEPT ![nodeId] = createTransaction(@, id, tx)]
            /\ client' = [client EXCEPT ![c] =
                 [ClientIdle EXCEPT !.pc = "probe", !.kind = "POST", !.nodeId = nodeId,
                                    !.transId = id, !.tx = tx, !.op = "INSERT",
                                    !.target = TargetNode(nodeId, tx)]]
    /\ UNCHANGED <<healthy, queue, worker, recovery>>

\* PUT: updateTransaction on the node, then replicateUpdate is entered.
Put(c, nodeId, id, updates) ==
    /\ CanStart(c)
    /\ nreq' = nreq + 1
    /\ IF ~healthy[nodeId]
       THEN Reject(c, "PUT", nodeId, id, 500) /\ db' = db
       ELSE IF ~updateTransactionResult(db[nodeId], id, updates)
       THEN Reject(c, "PUT", nodeId, id, 404) /\ db' = db
       ELSE /\ db' = [db EXCEPT ![nodeId] = updateTransaction(@, id, updates)]
            /\ client' = [client EXCEPT ![c] =
                 [ClientIdle EXCEPT !.pc = "get", !.kind = "PUT", !.nodeId = nodeId,
                                    !.transId = id, !.updates = updates, !.op = "UPDATE"]]
    /\ UNCHANGED <<healthy, queue, worker, recovery>>

\* DELETE: deleteTransaction on the node, then replicateDelete is entered.
Delete(c, nodeId, id) ==
    /\ CanStart(c)
    /\ nreq' = nreq + 1
    /\ IF ~healthy[nodeId]
       THEN Reject(c, "DELETE", nodeId, id, 500) /\ db' = db
       ELSE IF ~deleteTransactionResult(db[nodeId], id)
       THEN Reject(c, "DELETE", nodeId, id, 404) /\ db' = db
       ELSE /\ db' = [db EXCEPT ![nodeId] = deleteTransaction(@, id)]
            /\ client' = [client EXCEPT ![c] =
                 [ClientIdle EXCEPT !.pc = "get", !.kind = "DELETE", !.nodeId = nodeId,
                                    !.transId = id, !.op = "DELETE"]]
    /\ UNCHANGED <<healthy, queue, worker, recovery>>

\* replicateUpdate: getTransactionById on the source, then the destination.
ReplicateUpdateGet(c) ==
    /\ client[c].pc = "get"
    /\ client[c].op = "UPDATE"
    /\ LET src == client[c].nodeId
           row == getTransactionById(src, client[c].transId)
       IN IF ~ValidNode(src) \/ ~healthy[src] THEN ReplicationCatch(c, "Replication failed")
          ELSE IF row = {} THEN Finish(c, <<"not found on source node">>, "none")
          ELSE client' = [client EXCEPT ![c] =
                  [@ EXCEPT !.pc = "probe",
                            !.target = TargetNode(src, CHOOSE r \in row : TRUE)]]
    /\ UNCHANGED <<db, healthy, queue, worker, nreq, recovery>>

\* replicateDelete: getTransactionById on the source; from node 0 the delete
\* is forwarded only if the row was found.
ReplicateDeleteGet(c) ==
    /\ client[c].pc = "get"
    /\ client[c].op = "DELETE"
    /\ LET src == client[c].nodeId
           row == getTransactionById(src, client[c].transId)
       IN IF ~ValidNode(src) \/ ~healthy[src] THEN ReplicationCatch(c, "Replication failed")
          ELSE IF src = 0 /\ row = {} THEN Finish(c, <<>>, "not found on source node")
          ELSE client' = [client EXCEPT ![c] =
                  [@ EXCEPT !.pc = "probe",
                            !.target = IF src = 0
                                       THEN determinePartitionNode(CHOOSE r \in row : TRUE)
                                       ELSE 0]]
    /\ UNCHANGED <<db, healthy, queue, worker, nreq, recovery>>

\* replicateToNode / deleteFromNode: checkNodeHealth(targetNodeId).
NotHealthy == "not healthy - replication queued for retry"

ProbeTarget(c) ==
    /\ client[c].pc = "probe"
    /\ IF healthy[client[c].target]
       THEN client' = [client EXCEPT ![c] =
               [@ EXCEPT !.pc = CASE client[c].op = "INSERT" -> "exists"
                                  [] client[c].op = "UPDATE" -> "update"
                                  [] OTHER -> "delete"]]
       ELSE Finish(c, <<NotHealthy>>, "none")
    /\ UNCHANGED <<db, healthy, queue, worker, nreq, recovery>>

\* An idempotency check that never finds the row.
ExistingOnTarget_NoCheck(c) == {}

\* replicateToNode, INSERT: existing = getTransactionById(trans_id) on the target.
ExistingOnTarget(c) == getTransactionById(client[c].target, client[c].transId)

\* replicateToNode, INSERT: the idempotency check on the target.
InsertExists(c) ==
    /\ client[c].pc = "exists"
    /\ IF ~healthy[client[c].target] THEN Finish(c, <<"Failed to replicate">>, "none")
       ELSE IF ExistingOnTarget(c) # {}
       THEN Finish(c, <<>>, "already exists, skipping")
       ELSE client' = [client EXCEPT ![c] = [@ EXCEPT !.pc = "insert"]]
    /\ UNCHANGED <<db, healthy, queue, worker, nreq, recovery>>

\* replicateToNode, INSERT: the row is inserted with the same trans_id; a
\* duplicate key or a lost connection throws into the catch.
InsertApply(c) ==
    /\ client[c].pc = "insert"
    /\ LET t == client[c].target IN
       IF ~healthy[t] \/ Exists(t, client[c].transId)
       THEN Finish(c, <<"Failed to replicate">>, "none") /\ db' = db
       ELSE /\ db' = [db EXCEPT ![t] = InsertRow(@, client[c].transId, client[c].tx)]
            /\ Finish(c, <<>>, "none")
    /\ UNCHANGED <<healthy, queue, worker, nreq, recovery>>

\* replicateToNode, UPDATE: updateTransaction(trans_id, updates) on the
\* target; its boolean result is not looked at.
UpdateApply(c) ==
    /\ client[c].pc = "update"
    /\ LET t == client[c].target IN
       IF ~healthy[t]
       THEN Finish(c, <<"Failed to replicate">>, "none") /\ db' = db
       ELSE /\ db' = [db EXCEPT ![t] = updateTransaction(@, client[c].transId, client[c].updates)]
            /\ Finish(c, <<>>, "none")
    /\ UNCHANGED <<healthy, queue, worker, nreq, recovery>>

\* A delete that reports a record missing on the target as an error.
DeleteErrors_MissingIsError(t, id) == IF Exists(t, id) THEN <<>> ELSE <<"Failed to delete">>

\* deleteFromNode, the try block: deleteTransaction's boolean is dropped, so
\* no error is pushed whether or not a row was deleted.
DeleteErrors(t, id) == <<>>

\* deleteFromNode: deleteTransaction(transId) on the target; log keeps the
\* boolean the code drops.
DeleteApply(c) ==
    /\ client[c].pc = "delete"
    /\ LET t == client[c].target IN
       IF ~healthy[t]
       THEN Finish(c, <<"Failed to delete">>, "none") /\ db' = db
       ELSE /\ db' = [db EXCEPT ![t] = deleteTransaction(@, client[c].transId)]
            /\ Finish(c, DeleteErrors(t, client[c].transId),
                      IF deleteTransactionResult(db[t], client[c].transId)
                      THEN "none" ELSE "no row deleted")
    /\ UNCHANGED <<healthy, queue, worker, nreq, recovery>>

ClientStep(c) ==
    \/ \E n \in Nodes, id \in TransIds, tx \in CreateInputs : Post(c, n, id, tx)
    \/ \E n \in Nodes, id \in TransIds, u \in UpdateInputs : Put(c, n, id, u)
    \/ \E n \in Nodes, id \in TransIds : Delete(c, n, id)
    \/ ReplicateUpdateGet(c)
    \/ ReplicateDeleteGet(c)
    \/ ProbeTarget(c)
    \/ InsertExists(c)
    \/ InsertApply(c)
    \/ UpdateApply(c)
    \/ DeleteApply(c)

\* ------------------------------------- specification: the transactions API
NextApi ==
    \/ \E n \in Nodes : NodeFail(n)
    \/ \E n \in Nodes : NodeRecover(n)
    \/ \E c \in Clients : ClientStep(c)

SpecApi == Init /\ [][NextApi]_vars

\* ------------------------------------------------------ POST /api/replication
\* action INSERT: replicateInsert(sourceNodeId, transId, transaction).
ReplicationInsert(c, sourceNodeId, id, tx) ==
    /\ CanStart(c)
    /\ nreq' = nreq + 1
    /\ client' = [client EXCEPT ![c] =
          [ClientIdle EXCEPT !.pc = "probe", !.kind = "REPLICATION", !.nodeId = sourceNodeId,
                             !.transId = id, !.tx = tx, !.op = "INSERT",
                             !.target = TargetNode(sourceNodeId, tx)]]
    /\ UNCHANGED <<db, healthy, queue, worker, recovery>>

\* action UPDATE: replicateUpdate(sourceNodeId, transId, updates).
ReplicationUpdate(c, sourceNodeId, id, updates) ==
    /\ CanStart(c)
    /\ nreq' = nreq + 1
    /\ client' = [client EXCEPT ![c] =
          [ClientIdle EXCEPT !.pc = "get", !.kind = "REPLICATION", !.nodeId = sourceNodeId,
                             !.transId = id, !.updates = updates, !.op = "UPDATE"]]
    /\ UNCHANGED <<db, healthy, queue, worker, recovery>>

\* action DELETE: deleteTransaction on the source node only; 200 or 404,
\* 500 from the catch when the node does not answer.
ReplicationDelete(c, sourceNodeId, id) ==
    /\ CanStart(c)
    /\ nreq' = nreq + 1
    /\ IF ~healthy[sourceNodeId]
       THEN Reject(c, "REPLICATION", sourceNodeId, id, 500) /\ db' = db
       ELSE IF ~deleteTransactionResult(db[sourceNodeId], id)
       THEN Reject(c, "REPLICATION", sourceNodeId, id, 404) /\ db' = db
       ELSE /\ db' = [db EXCEPT ![sourceNodeId] = deleteTransaction(@, id)]
            /\ client' = [client EXCEPT ![c] =
                 [ClientIdle EXCEPT !.pc = "done", !.kind = "REPLICATION",
                                    !.nodeId = sourceNodeId, !.transId = id,
                                    !.response = [status |-> 200, success |-> TRUE]]]
    /\ UNCHANGED <<healthy, queue, worker, recovery>>

\* --------------------- specification: replication between diverged stores
\* The stores after earlier failures: a record may be on node 0 only, or on
\* its partition only.
DivergedDatasets ==
    {[n \in Nodes |->
        {DatasetRow(id) : id \in {i \in TransIds :
            \/ n = 0 /\ i \in S0
            \/ n # 0 /\ i \in SP /\ determinePartitionNode(DatasetRow(i)) = n}}]
     : S0 \in SUBSET TransIds, SP \in SUBSET TransIds}

InitDiverged ==
    /\ db \in DivergedDatasets
    /\ healthy = [n \in Nodes |-> TRUE]
    /\ queue = <<>>
    /\ worker = [w \in Workers |-> WorkerIdle]
    /\ client = [c \in Clients |-> ClientIdle]
    /\ nreq = 0
    /\ recovery = RecoveryIdle

NextReplication ==
    \/ \E n \in Nodes : NodeFail(n)
    \/ \E n \in Nodes : NodeRecover(n)
    \/ ClientStep("c1")
    \/ \E n \in Nodes, id \in TransIds, tx \in CreateInputs : ReplicationInsert("c1", n, id, tx)
    \/ \E n \in Nodes, id \in TransIds, u \in UpdateInputs : ReplicationUpdate("c1", n, id, u)
    \/ \E n \in Nodes, id \in TransIds : ReplicationDelete("c1", n, id)

SpecReplication == InitDiverged /\ [][NextReplication]_vars

\* ------------- specification: writes on node 0 and the worker that retries
\* Creates arrive on node 0 while the partitions fail and recover; the queue
\* receives the jobs addressed to partitions; one worker is invoked again and
\* again.
PartitionPayloads == {op \in QueuePayloads : op.targetNodeId \in Partitions}

NextRetry ==
    \/ \E n \in Partitions : NodeFail(n)
    \/ \E n \in Partitions : NodeRecover(n)
    \/ \E id \in TransIds, tx \in CreateInputs : Post("c1", 0, id, tx)
    \/ ProbeTarget("c1")
    \/ InsertExists("c1")
    \/ InsertApply("c1")
    \/ \E op \in PartitionPayloads : Enqueue(op)
    \/ WorkerStep("w1")

SpecRetry == Init /\ [][NextRetry]_vars

\* ------------------------------- POST /api/recovery/test, test case 4
\* getAllJobs: every row of replication_queue, in creation order.
getAllJobs == queue

\* UPDATE replication_queue SET status = 'PROCESSING' WHERE id = ?
MarkProcessingOnly(q, id) ==
    [i \in 1..Len(q) |-> IF q[i].id = id THEN [q[i] EXCEPT !.status = "PROCESSING"] ELSE q[i]]

\* SELECT * FROM trans LIMIT ?: the first rows of the table, in the order of
\* its primary key trans_id.
getAllTransactions(n, limit) ==
    LET count == IF Cardinality(db[n]) < limit THEN Cardinality(db[n]) ELSE limit IN
    [i \in 1..count |->
        CHOOSE r \in db[n] : Cardinality({x \in db[n] : x.trans_id < r.trans_id}) = i - 1]

\* INSERT INTO trans (trans_id, operation, amount, balance) from a job's payload.
InsertPayload(table, t) ==
    table \cup {[trans_id |-> t.trans_id, account_id |-> SqlNull,
                 operation |-> t.operation, amount |-> t.amount]}

\* job.payload.trans_id || job.trans_id
PayloadTransId(job) ==
    IF "trans_id" \in DOMAIN job.payload[1] THEN job.payload[1].trans_id ELSE job.trans_id

\* syncNodeAfterRecovery returns {success, synced, errors}; the handler
\* returns {success, queuedOperations, recoveredOperations}.
RecoveryReturn(r, syncSuccess, synced) ==
    [r EXCEPT !.pc = "done", !.synced = synced,
              !.sync = <<[success |-> syncSuccess, synced |-> synced,
                          errors |-> IF syncSuccess THEN <<>>
                                     ELSE IF r.nodeId = 0 THEN <<"not yet implemented">>
                                     ELSE <<"Sync failed">>]>>,
              !.result = <<[success |-> syncSuccess /\ r.queueFailed = 0,
                            queuedOperations |-> Len(r.nodeJobs),
                            recoveredOperations |-> r.queueProcessed + synced,
                            details |-> "ran"]>>]

\* The for loop over nodeJobs moves to the next job, or on to the sync.
NextJob(r) ==
    IF r.i < Len(r.nodeJobs) THEN [r EXCEPT !.pc = "claim", !.i = @ + 1]
    ELSE [r EXCEPT !.pc = "scan"]

\* The catch inside the loop: queueFailed++.
JobFailed(r) == NextJob([r EXCEPT !.queueFailed = @ + 1, !.unapplied = @ + 1])

\* A loop that visits every row of node 0, whichever partition it routes to.
NextRow_AllPartitions(r, k, synced) ==
    IF k > Len(r.rows) THEN RecoveryReturn(r, TRUE, synced)
    ELSE [r EXCEPT !.pc = "sexists", !.synced = synced, !.k = k]

\* syncNodeAfterRecovery's loop from row k on: rows of other partitions are
\* skipped; at its end the sync returns success with synced.
NextRow(r, k, synced) ==
    LET mine == {j \in k..Len(r.rows) : determinePartitionNode(r.rows[j]) = r.nodeId} IN
    IF mine = {} THEN RecoveryReturn(r, TRUE, synced)
    ELSE [r EXCEPT !.pc = "sexists", !.synced = synced,
                   !.k = CHOOSE j \in mine : \A m \in mine : j <= m]

\* testPartitionNodeRecovery: checkNodeHealth(nodeId).
RecoveryStart(n) ==
    /\ recovery.pc \in {"idle", "done"}
    /\ nreq < MaxRequests
    /\ nreq' = nreq + 1
    /\ recovery' =
         IF healthy[n]
         THEN [RecoveryIdle EXCEPT !.pc = "jobs", !.nodeId = n, !.testCase = 4,
                                   !.startEmpty = (db[n] = {})]
         ELSE [RecoveryIdle EXCEPT !.pc = "done", !.nodeId = n, !.testCase = 4,
                  !.result = <<[success |-> FALSE, queuedOperations |-> 0,
                                recoveredOperations |-> 0, details |-> "offline"]>>]
    /\ UNCHANGED <<db, healthy, queue, worker, client>>

\* getAllJobs and the filter on target_node_id and status PENDING; when the
\* query throws, the outer catch returns success: false with counts 0.
RecoveryGetAllJobs ==
    /\ recovery.pc = "jobs"
    /\ recovery' =
         IF ~healthy[0]
         THEN [recovery EXCEPT !.pc = "done",
                  !.result = <<[success |-> FALSE, queuedOperations |-> 0,
                                recoveredOperations |-> 0, details |-> "error"]>>]
         ELSE LET nodeJobs == SelectSeq(getAllJobs,
                                 LAMBDA j : j.target_node_id = recovery.nodeId
                                            /\ j.status = "PENDING")
              IN NextJob([recovery EXCEPT !.nodeJobs = nodeJobs])
    /\ UNCHANGED <<db, healthy, queue, worker, client, nreq>>

\* The job is marked PROCESSING and its payload read: a job without payload
\* throws at payload.trans_id, whatever its type.
RecoveryClaim ==
    /\ recovery.pc = "claim"
    /\ LET job == recovery.nodeJobs[recovery.i] IN
       IF ~healthy[0]
       THEN queue' = queue /\ recovery' = JobFailed(recovery)
       ELSE /\ queue' = MarkProcessingOnly(queue, job.id)
            /\ recovery' =
                 IF job.payload = <<>> THEN JobFailed(recovery)
                 ELSE IF job.operation_type = "INSERT" THEN [recovery EXCEPT !.pc = "jexists"]
                 ELSE [recovery EXCEPT !.pc = "japply"]
    /\ UNCHANGED <<db, healthy, worker, client, nreq>>

\* INSERT job: existing = getTransactionById(payload.trans_id) on the node.
RecoveryJobExists ==
    /\ recovery.pc = "jexists"
    /\ LET job == recovery.nodeJobs[recovery.i] IN
       recovery' =
         IF ~healthy[recovery.nodeId] THEN JobFailed(recovery)
         ELSE IF Exists(recovery.nodeId, job.payload[1].trans_id)
         THEN [recovery EXCEPT !.pc = "jmark", !.applied = @ + 1]
         ELSE [recovery EXCEPT !.pc = "jinsert"]
    /\ UNCHANGED <<db, healthy, queue, worker, client, nreq>>

\* INSERT job: the row is inserted; a duplicate key or a lost connection throws.
RecoveryJobInsert ==
    /\ recovery.pc = "jinsert"
    /\ LET job == recovery.nodeJobs[recovery.i]
           n == recovery.nodeId
       IN IF ~healthy[n] \/ Exists(n, job.payload[1].trans_id)
          THEN db' = db /\ recovery' = JobFailed(recovery)
          ELSE /\ db' = [db EXCEPT ![n] = InsertPayload(@, job.payload[1])]
               /\ recovery' = [recovery EXCEPT !.pc = "jmark", !.applied = @ + 1]
    /\ UNCHANGED <<healthy, queue, worker, client, nreq>>

\* UPDATE or DELETE job: updateTransaction / deleteTransaction on the node,
\* the boolean result dropped.
RecoveryJobApply ==
    /\ recovery.pc = "japply"
    /\ LET job == recovery.nodeJobs[recovery.i]
           n == recovery.nodeId
           id == PayloadTransId(job)
           done == IF job.operation_type = "UPDATE"
                   THEN updateTransactionResult(db[n], id, job.payload[1])
                   ELSE deleteTransactionResult(db[n], id)
       IN IF ~healthy[n]
          THEN db' = db /\ recovery' = JobFailed(recovery)
          ELSE /\ db' = [db EXCEPT ![n] =
                            IF job.operation_type = "UPDATE"
                            THEN updateTransaction(@, id, job.payload[1])
                            ELSE deleteTransaction(@, id)]
               /\ recovery' = [recovery EXCEPT !.pc = "jmark",
                                  !.applied = IF done THEN @ + 1 ELSE @,
                                  !.unapplied = IF done THEN @ ELSE @ + 1]
    /\ UNCHANGED <<healthy, queue, worker, client, nreq>>

\* markJobComplete(job.id); queueProcessed++.
RecoveryJobMark ==
    /\ recovery.pc = "jmark"
    /\ LET job == recovery.nodeJobs[recovery.i] IN
       IF ~healthy[0]
       THEN /\ queue' = queue
            /\ recovery' = NextJob([recovery EXCEPT !.queueFailed = @ + 1])
       ELSE /\ queue' = markJobComplete(queue, job.id)
            /\ recovery' = NextJob([recovery EXCEPT !.queueProcessed = @ + 1])
    /\ UNCHANGED <<db, healthy, worker, client, nreq>>

\* centralService.getAllTransactions(10000)
ScanLimit == 10000

\* A sync that scans for node 0 as it does for a partition.
RecoveryScan_CentralScanned ==
    /\ recovery.pc = "scan"
    /\ recovery' =
         IF ~ValidNode(recovery.nodeId) \/ ~healthy[0]
         THEN RecoveryReturn(recovery, FALSE, 0)
         ELSE NextRow([recovery EXCEPT !.rows = getAllTransactions(0, ScanLimit)], 1, 0)
    /\ UNCHANGED <<db, healthy, queue, worker, client, nreq>>

\* syncNodeAfterRecovery: node 0 is not implemented; for a partition,
\* getAllTransactions(10000) on node 0.
RecoveryScan ==
    /\ recovery.pc = "scan"
    /\ recovery' =
         IF recovery.nodeId = 0 \/ ~ValidNode(recovery.nodeId) \/ ~healthy[0]
         THEN RecoveryReturn(recovery, FALSE, 0)
         ELSE NextRow([recovery EXCEPT !.rows = getAllTransactions(0, ScanLimit)], 1, 0)
    /\ UNCHANGED <<db, healthy, queue, worker, client, nreq>>

\* syncNodeAfterRecovery: existing = getTransactionById on the partition.
RecoverySyncExists ==
    /\ recovery.pc = "sexists"
    /\ LET row == recovery.rows[recovery.k] IN
       recovery' =
         IF ~healthy[recovery.nodeId] THEN RecoveryReturn(recovery, FALSE, recovery.synced)
         ELSE IF Exists(recovery.nodeId, row.trans_id)
         THEN NextRow(recovery, recovery.k + 1, recovery.synced)
         ELSE [recovery EXCEPT !.pc = "sinsert"]
    /\ UNCHANGED <<db, healthy, queue, worker, client, nreq>>

\* syncNodeAfterRecovery: the missing row is inserted; synced++.
RecoverySyncInsert ==
    /\ recovery.pc = "sinsert"
    /\ LET row == recovery.rows[recovery.k]
           n == recovery.nodeId
       IN IF ~healthy[n] \/ Exists(n, row.trans_id)
          THEN /\ db' = db
               /\ recovery' = RecoveryReturn([recovery EXCEPT !.unapplied = @ + 1],
                                             FALSE, recovery.synced)
          ELSE /\ db' = [db EXCEPT ![n] = InsertRow(@, row.trans_id, row)]
               /\ recovery' = NextRow([recovery EXCEPT !.applied = @ + 1],
                                      recovery.k + 1, recovery.synced + 1)
    /\ UNCHANGED <<healthy, queue, worker, client, nreq>>

RecoveryStep ==
    \/ RecoveryGetAllJobs
    \/ RecoveryClaim
    \/ RecoveryJobExists
    \/ RecoveryJobInsert
    \/ RecoveryJobApply
    \/ RecoveryJobMark
    \/ RecoveryScan
    \/ RecoverySyncExists
    \/ RecoverySyncInsert

\* ------------------------------- POST /api/recovery/test, test case 3
\* The request names the partition in simulatedFailures, so that the write
\* made on node 0 is queued by hand instead of replicated.
\* INSERT INTO trans (trans_id, operation, amount, balance): the test record
\* and the placeholder; balance is written alongside amount (950 and 0).
TestRow(id) ==
    [trans_id |-> id, account_id |-> SqlNull, operation |-> "TEST_RECOVERY_CASE3", amount |-> 50]

PlaceholderRow(id) ==
    [trans_id |-> id, account_id |-> SqlNull, operation |-> "PENDING_REPLICATION", amount |-> 0]

\* The returns of the test case: from a catch, "not found after creation",
\* and "Operation queued".
CaseFailed(r, details) ==
    [r EXCEPT !.pc = "done",
              !.result = <<[success |-> FALSE, queuedOperations |-> 0,
                            recoveredOperations |-> 0, details |-> details]>>]

CaseQueued(r) ==
    [r EXCEPT !.pc = "done",
              !.result = <<[success |-> TRUE, queuedOperations |-> 1,
                            recoveredOperations |-> 0, details |-> "queued"]>>]

\* The write on node 0: a new record when no transId is given (fresh), or
\* updateTransaction(transId, {amount}) of an existing one.
Case3Start(n, id, fresh, a) ==
    /\ recovery.pc = "idle"
    /\ LET r == [RecoveryIdle EXCEPT !.nodeId = n, !.testCase = 3, !.transId = id] IN
       IF ~healthy[0] \/ (fresh /\ Exists(0, id))
       THEN db' = db /\ recovery' = CaseFailed(r, "error")
       ELSE /\ db' = [db EXCEPT ![0] = IF fresh THEN @ \cup {TestRow(id)}
                                        ELSE updateTransaction(@, id, [amount |-> a])]
            /\ recovery' = [r EXCEPT !.pc = "t3read"]
    /\ UNCHANGED <<healthy, queue, worker, client, nreq>>

\* transaction = getTransactionById(actualTransId) on node 0.
Case3Read ==
    /\ recovery.pc = "t3read"
    /\ LET row == getTransactionById(0, recovery.transId) IN
       recovery' =
         IF ~healthy[0] THEN CaseFailed(recovery, "error")
         ELSE IF row = {} THEN CaseFailed(recovery, "not found after creation")
         ELSE [recovery EXCEPT !.pc = "t3exists", !.transaction = <<CHOOSE x \in row : TRUE>>]
    /\ UNCHANGED <<db, healthy, queue, worker, client, nreq>>

\* existing = getTransactionById(actualTransId) on the partition.
Case3Exists ==
    /\ recovery.pc = "t3exists"
    /\ recovery' =
         IF ~healthy[recovery.nodeId] THEN CaseFailed(recovery, "Failed to queue")
         ELSE IF Exists(recovery.nodeId, recovery.transId)
         THEN [recovery EXCEPT !.pc = "t3enqueue"]
         ELSE [recovery EXCEPT !.pc = "t3placeholder"]
    /\ UNCHANGED <<db, healthy, queue, worker, client, nreq>>

\* The placeholder row is inserted on the partition.
Case3Placeholder ==
    /\ recovery.pc = "t3placeholder"
    /\ LET n == recovery.nodeId IN
       IF ~healthy[n] \/ Exists(n, recovery.transId)
       THEN db' = db /\ recovery' = CaseFailed(recovery, "Failed to queue")
       ELSE /\ db' = [db EXCEPT ![n] = @ \cup {PlaceholderRow(recovery.transId)}]
            /\ recovery' = [recovery EXCEPT !.pc = "t3enqueue"]
    /\ UNCHANGED <<healthy, queue, worker, client, nreq>>

\* PersistenceService.enqueue({transId, targetNodeId, type: 'INSERT', data:
\* transaction}), which returns normally whether or not its INSERT ran, and
\* the return of "Operation queued".
Case3Enqueue ==
    /\ recovery.pc = "t3enqueue"
    /\ Len(queue) < MaxJobs
    /\ queue' = enqueue(queue, [transId |-> recovery.transId, targetNodeId |-> recovery.nodeId,
                                type |-> "INSERT", data |-> recovery.transaction])
    /\ recovery' = CaseQueued(recovery)
    /\ UNCHANGED <<db, healthy, worker, client, nreq>>

Case3Step ==
    \/ Case3Read
    \/ Case3Exists
    \/ Case3Placeholder
    \/ Case3Enqueue

\* ---------------- specification: test case 3 followed by test case 4
\* One node at a time fails and comes back; other writers queue jobs for the
\* partitions meanwhile.
NextCases ==
    \/ \E n \in Nodes : (\A m \in Nodes : healthy[m]) /\ NodeFail(n)
    \/ \E n \in Nodes : NodeRecover(n)
    \/ \E n \in Partitions, id \in TransIds, fresh \in BOOLEAN, a \in Amounts :
          Case3Start(n, id, fresh, a)
    \/ Case3Step
    \/ \E op \in PartitionPayloads : Enqueue(op)
    \/ \E n \in Partitions : RecoveryStart(n)
    \/ RecoveryStep

SpecCases == Init /\ [][NextCases]_vars

\* ----------------------------------- specification: recovery of a node
\* Node 0 holds records with any account_id; the partitions are empty (new
\* or restored without data) or hold the records of the data set.
CentralRows ==
    {[trans_id |-> id, account_id |-> a, operation |-> "op", amount |-> 100]
        : id \in TransIds, a \in AccountIds \cup {SqlNull}}

CentralTables ==
    {T \in SUBSET CentralRows : \A r1 \in T : \A r2 \in T : r1.trans_id = r2.trans_id => r1 = r2}

RecoveryDatasets ==
    {[n \in Nodes |-> IF n = 0 THEN T
                      ELSE IF n \in P THEN {DatasetRow(id) : id \in TransIds} ELSE {}]
     : T \in CentralTables, P \in {{}, Partitions}}

InitRecovery ==
    /\ db \in RecoveryDatasets
    /\ healthy = [n \in Nodes |-> TRUE]
    /\ queue = <<>>
    /\ worker = [w \in Workers |-> WorkerIdle]
    /\ client = [c \in Clients |-> ClientIdle]
    /\ nreq = 0
    /\ recovery = RecoveryIdle

\* One node is down at a time; the jobs enqueued are those for partitions.
NextRecovery ==
    \/ \E n \in Nodes : (\A m \in Nodes : healthy[m]) /\ NodeFail(n)
    \/ \E n \in Nodes : NodeRecover(n)
    \/ \E op \in PartitionPayloads : Enqueue(op)
    \/ WorkerStep("w1")
    \/ \E n \in Nodes : RecoveryStart(n)
    \/ RecoveryStep

SpecRecovery == InitRecovery /\ [][NextRecovery]_vars

\* ------------------------------------------ GET /api/recovery/queue-status
\* jobs.filter(j => j.status === s).length
CountStatus(jobs, s) == Cardinality({i \in 1..Len(jobs) : jobs[i].status = s})

\* The data of the response, computed from the rows getAllJobs returned.
QueueStatusData(jobs) ==
    [pending |-> CountStatus(jobs, "pending"),
     processing |-> CountStatus(jobs, "processing"),
     failed |-> CountStatus(jobs, "failed"),
     completed |-> CountStatus(jobs, "completed"),
     total |-> Len(jobs)]

\* GET: one query and the response; 500 from the catch when it throws.
QueueStatus(c) ==
    /\ client[c].pc \in {"idle", "done"}
    /\ client' = [client EXCEPT ![c] =
          IF healthy[0]
          THEN [ClientIdle EXCEPT !.pc = "done", !.kind = "QUEUE_STATUS",
                                  !.result = <<QueueStatusData(getAllJobs)>>,
                                  !.response = [status |-> 200, success |-> TRUE]]
          ELSE [ClientIdle EXCEPT !.pc = "done", !.kind = "QUEUE_STATUS",
                                  !.response = [status |-> 500, success |-> FALSE]]]
    /\ UNCHANGED <<db, healthy, queue, worker, nreq, recovery>>

\* ----------------------- specification: the queue and its status snapshot
NextStatus ==
    \/ NextClaim
    \/ QueueStatus("c1")

SpecStatus == Init /\ [][NextStatus]_vars

\* ------------------- specification: the queue under worker and recovery
\* Jobs for record 1 on node 1 are enqueued while a worker and a recovery of
\* node 1 run side by side; node 1 fails between requests and comes back at
\* any time.
DrainPayloads == {op \in QueuePayloads : op.targetNodeId = 1 /\ op.transId = 1}

NextDrain ==
    \/ (recovery.pc \in {"idle", "done"} /\ worker["w1"].pc \in {"idle", "done"}) /\ NodeFail(1)
    \/ NodeRecover(1)
    \/ \E op \in DrainPayloads : Enqueue(op)
    \/ WorkerStep("w1")
    \/ RecoveryStart(1)
    \/ RecoveryStep

SpecDrain == Init /\ [][NextDrain]_vars

\* ------------------------------ specification: the sync of a partition
\* Node 0 holds up to MaxRows records; a partition holds some of the records
\* that route to it (it missed the others while it was down).
SyncRows ==
    {[trans_id |-> id, account_id |-> a, operation |-> "op", amount |-> 100]
        : id \in 1..MaxRows, a \in AccountIds}

SyncTables ==
    {T \in SUBSET SyncRows : \A r1 \in T : \A r2 \in T : r1.trans_id = r2.trans_id => r1 = r2}

SyncDatasets ==
    {[n \in Nodes |-> IF n = 0 THEN T
                      ELSE {r \in T : determinePartitionNode(r) = n /\ r.trans_id \in H}]
     : T \in SyncTables, H \in SUBSET (1..MaxRows)}

InitSync ==
    /\ db \in SyncDatasets
    /\ healthy = [n \in Nodes |-> TRUE]
    /\ queue = <<>>
    /\ worker = [w \in Workers |-> WorkerIdle]
    /\ client = [c \in Clients |-> ClientIdle]
    /\ nreq = 0
    /\ recovery = RecoveryIdle

\* The partitions fail and come back while one recovery request runs.
NextSync ==
    \/ \E n \in Partitions : NodeFail(n)
    \/ \E n \in Partitions : NodeRecover(n)
    \/ \E op \in PartitionPayloads : Enqueue(op)
    \/ \E n \in Partitions : RecoveryStart(n)
    \/ RecoveryStep

SpecSync == InitSync /\ [][NextSync]_vars

\* ------------------- specification: the replicate calls and the sync call
\* POST /api/replication, action SYNC: syncNodeAfterRecovery(recoveredNodeId).
ReplicationSync(n) ==
    /\ recovery.pc \in {"idle", "done"}
    /\ nreq < MaxRequests
    /\ nreq' = nreq + 1
    /\ recovery' = [RecoveryIdle EXCEPT !.pc = "scan", !.nodeId = n]
    /\ UNCHANGED <<db, healthy, queue, worker, client>>

AnyNode == Nodes \cup {InvalidNode}

\* Every call of the four functions, with any node id, while one node at a
\* time fails and comes back.
NextCalls ==
    \/ \E n \in Nodes : (\A m \in Nodes : healthy[m]) /\ NodeFail(n)
    \/ \E n \in Nodes : NodeRecover(n)
    \/ \E n \in AnyNode, id \in TransIds, tx \in CreateInputs : ReplicationInsert("c1", n, id, tx)
    \/ \E n \in AnyNode, id \in TransIds, u \in UpdateInputs : ReplicationUpdate("c1", n, id, u)
    \/ \E n \in Nodes, id \in TransIds : Delete("c1", n, id)
    \/ ReplicateUpdateGet("c1")
    \/ ReplicateDeleteGet("c1")
    \/ ProbeTarget("c1")
    \/ InsertExists("c1")
    \/ InsertApply("c1")
    \/ UpdateApply("c1")
    \/ DeleteApply("c1")
    \/ \E n \in AnyNode : ReplicationSync(n)
    \/ RecoveryScan
    \/ RecoverySyncExists
    \/ RecoverySyncInsert

SpecCalls == InitDiverged /\ [][NextCalls]_vars

\* ------------------ specification: the sync over a long table of node 0
\* Node 0 holds MaxScanned records, one more than the window the handler's
\* comment speaks of ("checks last 100 transactions"); records 1 and 2, the
\* oldest of each partition, may be missing on their partition.
RecentWindow == 100

InitScan ==
    /\ \E H \in SUBSET {1, 2} :
          db = [n \in Nodes |->
                  {DatasetRow(id) : id \in {i \in 1..MaxScanned :
                      n = 0 \/ (determinePartitionNode(DatasetRow(i)) = n /\ i \notin H)}}]
    /\ healthy = [n \in Nodes |-> TRUE]
    /\ queue = <<>>
    /\ worker = [w \in Workers |-> WorkerIdle]
    /\ client = [c \in Clients |-> ClientIdle]
    /\ nreq = 0
    /\ recovery = RecoveryIdle

NextScan ==
    \/ \E n \in Nodes : (\A m \in Nodes : healthy[m]) /\ NodeFail(n)
    \/ \E n \in Nodes : NodeRecover(n)
    \/ \E n \in Partitions : ReplicationSync(n)
    \/ RecoveryScan
    \/ RecoverySyncExists
    \/ RecoverySyncInsert

SpecScan == InitScan /\ [][NextScan]_vars

\* ------- specification: a replicated INSERT beside a sync of a partition
\* syncNodeAfterRecovery(n) is entered once, by a caller other than client c1.
SyncOnce(n) ==
    /\ recovery.pc = "idle"
    /\ recovery' = [RecoveryIdle EXCEPT !.pc = "scan", !.nodeId = n]
    /\ UNCHANGED <<db, healthy, queue, worker, client, nreq>>

NextRace ==
    \/ \E n \in Nodes : (\A m \in Nodes : healthy[m]) /\ NodeFail(n)
    \/ \E n \in Nodes : NodeRecover(n)
    \/ \E n \in Nodes, id \in TransIds, tx \in CreateInputs : ReplicationInsert("c1", n, id, tx)
    \/ ProbeTarget("c1")
    \/ InsertExists("c1")
    \/ InsertApply("c1")
    \/ \E n \in Partitions : SyncOnce(n)
    \/ RecoveryScan
    \/ RecoverySyncExists
    \/ RecoverySyncInsert

SpecRace == InitDiverged /\ [][NextRace]_vars

\* --------------- specification: the sync call over diverged partitions
\* POST /api/replication with action SYNC for a partition, over the stores of
\* InitSync, while one node at a time fails and comes back.
NextFrame ==
    \/ \E n \in Nodes : (\A m \in Nodes : healthy[m]) /\ NodeFail(n)
    \/ \E n \in Nodes : NodeRecover(n)
    \/ \E n \in Partitions : ReplicationSync(n)
    \/ RecoveryScan
    \/ RecoverySyncExists
    \/ RecoverySyncInsert

SpecFrame == InitSync /\ [][NextFrame]_vars

\* ------------------------------------------------------------------ claims
\* getNextJob has returned a job to w and w's handler is still working on it.
Holds(w) == worker[w].pc \in {"probe", "exec", "mark"}

\* C1: in every interleaving of concurrent getNextJob calls no job is
\* returned to more than one caller: two workers never hold the same job.
C1_NoJobReturnedTwice ==
    \A w1 \in Workers : \A w2 \in Workers \ {w1} :
        (Holds(w1) /\ Holds(w2)) => worker[w1].job[1].id # worker[w2].job[1].id

\* C2: provided every node is healthy from some point on and the worker step
\* keeps being invoked, a job that was claimed while its target was unhealthy
\* is later claimed again and reaches status COMPLETE.
C2_SkippedJobCompletes ==
    (<>[](\A n \in Nodes : healthy[n]))
        => \A i \in 1..MaxJobs :
              []((/\ worker["w1"].pc = "done"
                  /\ worker["w1"].error = "unhealthy"
                  /\ worker["w1"].job[1].id = i)
                 => <>(Len(queue) >= i /\ queue[i].status = "COMPLETE"))

\* C10: executeJob applied to an INSERT job whose record is already on its
\* healthy target (the state a first application leaves) does not error and
\* leaves exactly one copy of the record on the target.
C10_InsertJobReapplied ==
    [][\A w \in Workers :
          (/\ worker[w].pc = "exec"
           /\ worker'[w].pc # "exec"
           /\ worker[w].job[1].operation_type = "INSERT"
           /\ healthy[worker[w].job[1].target_node_id]
           /\ Exists(worker[w].job[1].target_node_id, worker[w].job[1].trans_id))
          => (/\ worker'[w].success
              /\ Cardinality({r \in db'[worker[w].job[1].target_node_id] :
                                r.trans_id = worker[w].job[1].trans_id}) = 1)]_vars

\* The job a replication that could not reach its target should have left.
QueuedFor(c) ==
    \E i \in 1..Len(queue) :
        /\ queue[i].status = "PENDING"
        /\ queue[i].operation_type = client[c].op
        /\ queue[i].trans_id = client[c].transId
        /\ queue[i].target_node_id = client[c].target

InErrors(c, e) == \E i \in 1..Len(client[c].errors) : client[c].errors[i] = e

Replicated(c) == client[c].pc = "done" /\ client[c].result # <<>>

\* C3: after a replicate call whose destination health probe returned false,
\* the result carries the queued notice and the queue (node 0 being up) holds
\* a PENDING job with the call's operation type, record id and target node.
C3_UnhealthyTargetIsQueued ==
    \A c \in Clients :
        (Replicated(c) /\ InErrors(c, NotHealthy) /\ healthy[0]) => QueuedFor(c)

\* C4: a replicate call whose destination health probe returned false
\* returns success = true.
C4_UnhealthyTargetIsSuccess ==
    \A c \in Clients :
        (Replicated(c) /\ InErrors(c, NotHealthy)) => client[c].result[1].success

\* C6: when the probe returned true and the apply on the destination then
\* threw, the operation is enqueued (node 0 being up) as a PENDING job for
\* that destination and the call does not report a failure.
C6_ApplyErrorIsQueued ==
    \A c \in Clients :
        (/\ Replicated(c)
         /\ InErrors(c, "Failed to replicate") \/ InErrors(c, "Failed to delete")
         /\ healthy[0])
        => (client[c].result[1].success /\ QueuedFor(c))

\* The steps of a request that follow its local write.
ReplicationPcs == {"get", "probe", "exists", "insert", "update", "delete"}

\* C7: once the local write of a create, update or delete is applied, no step
\* of its replication changes the source node's table, and the response
\* reports success = true.
C7_LocalCommitKept ==
    [][\A c \in Clients :
          (client[c].pc \in ReplicationPcs /\ client'[c] # client[c])
          => (/\ db'[client[c].nodeId] = db[client[c].nodeId]
              /\ (client'[c].pc = "done" => client'[c].response.success))]_vars

\* A create whose replication failed, answered with success, its row on the source.
C7_Witness ==
    \E c \in Clients :
        /\ Replicated(c)
        /\ client[c].kind = "POST"
        /\ ~client[c].result[1].success
        /\ client[c].response.success
        /\ Exists(client[c].nodeId, client[c].transId)

\* C8: after a successful DELETE on source node s, with every node healthy
\* and no replication error, the record is gone from the destination: from
\* node 0 when s is a partition, from the partition that owns it when s is 0.
C8_DeleteReachesDestination ==
    \A c \in Clients :
        (/\ Replicated(c)
         /\ client[c].kind = "DELETE"
         /\ client[c].response.success
         /\ client[c].errors = <<>>
         /\ \A n \in Nodes : healthy[n])
        => IF client[c].nodeId = 0
           THEN \A p \in Partitions : \A r \in RowsById(p, client[c].transId) :
                    determinePartitionNode(r) # p
           ELSE ~Exists(0, client[c].transId)

\* C9: a replicated INSERT whose healthy destination already holds the
\* record returns success = true with no errors, and the destination keeps
\* its one copy unchanged.
C9_ExistingInsertSkipped ==
    [][\A c \in Clients :
          (/\ client[c].pc = "exists"
           /\ client'[c] # client[c]
           /\ healthy[client[c].target]
           /\ Exists(client[c].target, client[c].transId))
          => (/\ client'[c].pc = "done"
              /\ client'[c].result = <<[success |-> TRUE, errors |-> <<>>]>>
              /\ db' = db
              /\ Cardinality(RowsById(client[c].target, client[c].transId)) = 1)]_vars

\* A create whose INSERT found the record on the destination and skipped it.
C9_Witness ==
    \E c \in Clients :
        /\ Replicated(c)
        /\ client[c].op = "INSERT"
        /\ client[c].log = "already exists, skipping"
        /\ client[c].result[1].success
        /\ Exists(client[c].target, client[c].transId)

\* ------------------------------------- claims on replication between stores
\* C11: replicateUpdate whose healthy destination does not hold the record
\* returns success = false, without a queued notice, and creates no job.
C11_UpdateMissingOnTargetFails ==
    [][\A c \in Clients :
          (/\ client[c].pc = "update"
           /\ client'[c] # client[c]
           /\ healthy[client[c].target]
           /\ ~Exists(client[c].target, client[c].transId))
          => (/\ client'[c].pc = "done"
              /\ ~client'[c].result[1].success
              /\ \A i \in 1..Len(client'[c].errors) : client'[c].errors[i] # NotHealthy
              /\ queue' = queue)]_vars

\* C12: replicateDelete for a record absent on the source node, whichever
\* node the source is, returns success = false with a not-found error.
C12_DeleteMissingOnSourceFails ==
    [][\A c \in Clients :
          (/\ client[c].pc = "get"
           /\ client[c].op = "DELETE"
           /\ client'[c] # client[c]
           /\ healthy[client[c].nodeId]
           /\ ~Exists(client[c].nodeId, client[c].transId))
          => (/\ client'[c].pc = "done"
              /\ client'[c].result # <<>>
              /\ ~client'[c].result[1].success)]_vars

\* C13: replicateUpdate for a record absent on the source node returns
\* success = false with the not-found error, goes to no destination (no probe,
\* no write) and creates no job.
C13_UpdateMissingOnSourceFails ==
    [][\A c \in Clients :
          (/\ client[c].pc = "get"
           /\ client[c].op = "UPDATE"
           /\ client'[c] # client[c]
           /\ healthy[client[c].nodeId]
           /\ ~Exists(client[c].nodeId, client[c].transId))
          => (/\ client'[c].pc = "done"
              /\ client'[c].result =
                    <<[success |-> FALSE, errors |-> <<"not found on source node">>]>>
              /\ db' = db
              /\ queue' = queue)]_vars

\* A replicateUpdate that ended with the source-not-found error.
C13_Witness ==
    \E c \in Clients :
        /\ Replicated(c)
        /\ client[c].op = "UPDATE"
        /\ ~Exists(client[c].nodeId, client[c].transId)
        /\ InErrors(c, "not found on source node")
        /\ ~client[c].result[1].success

\* C14: a delete replicated to a healthy destination that does not hold the
\* record adds no error, returns success = true and leaves the destination
\* as it was.
C14_DeleteMissingOnTargetSucceeds ==
    [][\A c \in Clients :
          (/\ client[c].pc = "delete"
           /\ client'[c] # client[c]
           /\ healthy[client[c].target]
           /\ ~Exists(client[c].target, client[c].transId))
          => (/\ client'[c].pc = "done"
              /\ client'[c].result = <<[success |-> TRUE, errors |-> <<>>]>>
              /\ db' = db)]_vars

\* A replicated delete that found nothing to delete on its destination.
C14_Witness ==
    \E c \in Clients :
        /\ Replicated(c)
        /\ client[c].op = "DELETE"
        /\ client[c].log = "no row deleted"
        /\ client[c].result[1].success

\* The destination the routing rule allows for a call made on the source node.
RightTarget(source, target) ==
    /\ target # source
    /\ source = 0 => target \in Partitions
    /\ source # 0 => target = 0

\* The steps of a replicate call at or after the probe of its destination.
ContactPcs == {"probe", "exists", "insert", "update", "delete"}

C16_RoutingStable ==
    \A c \in Clients :
        (/\ client[c].kind = "POST"
         /\ client[c].op = "INSERT"
         /\ client[c].nodeId = 0)
        => \A r \in RowsById(0, client[c].transId) :
              determinePartitionNode(r) = client[c].target

\* recordId mod 2: odd ids on partition A (node 1), even ids on B (node 2).
IdPartition(id) == IF id % 2 = 1 THEN 1 ELSE 2

\* C17: a write made on node 0 is routed by its record id modulo 2, whatever
\* the record's other fields are.
C17_RoutedByRecordId ==
    \A c \in Clients :
        (client[c].pc \in ContactPcs /\ client[c].nodeId = 0)
            => client[c].target = IdPartition(client[c].transId)

\* ------------------------------------------------------ claims on recovery
\* A job for node n is waiting in the queue q.
PendingFor(q, n) ==
    \E i \in 1..Len(q) : q[i].target_node_id = n /\ q[i].status = "PENDING"

\* The recovery handler returns in this step.
RecoveryReturns == recovery.pc # "done" /\ recovery'.pc = "done"

\* C18: when recovery of node n returns success = true, no job for n is
\* PENDING at that moment, whatever enqueues and worker steps ran meanwhile.
C18_NoPendingAfterRecovery ==
    [][(RecoveryReturns /\ recovery'.result[1].success)
          => ~PendingFor(queue', recovery'.nodeId)]_vars

\* C19: a successful recovery of a partition p that was empty leaves p with
\* exactly the records of node 0 whose id routes to p (odd ids on node 1,
\* even ids on node 2), and no PENDING job for p.
C19_RecoveredPartitionHoldsItsRecords ==
    [][(/\ RecoveryReturns
        /\ recovery'.nodeId \in Partitions
        /\ recovery'.startEmpty
        /\ recovery'.result[1].success)
          => (/\ {r.trans_id : r \in db'[recovery'.nodeId]}
                   = {r.trans_id : r \in {x \in db'[0] : IdPartition(x.trans_id) = recovery'.nodeId}}
              /\ ~PendingFor(queue', recovery'.nodeId))]_vars

\* C20: the result reports success only if no drained job and no scanned
\* record failed to apply, and its recovered count is the number of jobs and
\* records that were applied on the node.
C20_RecoveryResultCounts ==
    (recovery.pc = "done" /\ recovery.result # <<>>)
        => (/\ recovery.result[1].success => recovery.unapplied = 0
            /\ recovery.result[1].recoveredOperations = recovery.applied)

\* The rows of the scan that belong to the node being recovered.
Mine(r) == {j \in 1..Len(r.rows) : determinePartitionNode(r.rows[j]) = r.nodeId}

\* C21: an error on one queued job or on the insert of one missing record
\* does not abort the rest of the recovery: when the handler returns after
\* its health check and queue query, every job of its snapshot has been
\* attempted and every scanned record of the node has been visited.
C21_RecoveryNeverAborts ==
    [][/\ (RecoveryReturns /\ recovery.pc \in {"scan", "sexists", "sinsert"})
             => recovery'.i = Len(recovery'.nodeJobs)
       /\ (RecoveryReturns /\ recovery.pc = "sinsert")
             => \A j \in Mine(recovery') : j <= recovery'.k]_vars

\* C22: replicateInsert, replicateUpdate, replicateDelete and
\* syncNodeAfterRecovery never throw: whatever node id they are given and
\* whichever node fails under them, each call ends by returning a result with
\* a success flag and an errors list, success being "errors is empty".
C22_CallsReturnResult ==
    [][/\ \A c \in Clients :
             (client[c].pc \in ReplicationPcs /\ client'[c].pc = "done")
                => (/\ client'[c].result # <<>>
                    /\ client'[c].result[1].success = (client'[c].result[1].errors = <<>>))
       /\ (recovery.pc \in {"scan", "sexists", "sinsert"} /\ recovery'.pc = "done")
             => (/\ recovery'.sync # <<>>
                 /\ recovery'.sync[1].success = (recovery'.sync[1].errors = <<>>))]_vars

\* A replicateUpdate given a node id that does not exist returned its failure.
C22_Witness ==
    \E c \in Clients :
        /\ Replicated(c)
        /\ client[c].nodeId = InvalidNode
        /\ client[c].op = "UPDATE"
        /\ ~client[c].result[1].success
        /\ InErrors(c, "Replication failed")

\* -------------------------------------------------- claims on the job queue
\* C23: when the worker step has claimed a job and the probe of the job's
\* target returns false, the step ends there and the job (node 0 being up) is
\* back in status PENDING.
C23_UnhealthyTargetRequeues ==
    [][\A w \in Workers :
          (/\ worker[w].pc = "probe"
           /\ worker'[w] # worker[w]
           /\ ~healthy[worker[w].job[1].target_node_id]
           /\ healthy[0])
          => (/\ worker'[w].pc = "done"
              /\ db' = db
              /\ queue'[worker[w].job[1].id].status = "PENDING")]_vars

\* The status changes a job may make.
StatusSteps ==
    {<<"PENDING", "PROCESSING">>, <<"PROCESSING", "COMPLETE">>,
     <<"PROCESSING", "FAILED">>, <<"PROCESSING", "PENDING">>}

\* C24: whatever worker steps and recovery runs interleave, the status of a
\* job changes only PENDING -> PROCESSING, PROCESSING -> COMPLETE,
\* PROCESSING -> FAILED or PROCESSING -> PENDING; a COMPLETE job keeps its
\* status for ever.
C24_StatusSteps ==
    [][\A i \in 1..Len(queue) :
          \/ queue'[i].status = queue[i].status
          \/ <<queue[i].status, queue'[i].status>> \in StatusSteps]_vars

\* Job j has been applied on its target (a worker executed it and is about to
\* mark it) or is marked COMPLETE.
AppliedOrComplete(j) ==
    \/ queue[j].status = "COMPLETE"
    \/ \E w \in Workers : worker[w].pc = "mark" /\ worker[w].job[1].id = j

\* C25: for two jobs with the same trans_id and target node, an UPDATE job
\* created after an INSERT job is not applied or marked COMPLETE before the
\* INSERT job is COMPLETE.
C25_InsertBeforeUpdate ==
    \A i \in 1..Len(queue) : \A j \in 1..Len(queue) :
        (/\ i < j
         /\ queue[i].operation_type = "INSERT"
         /\ queue[j].operation_type = "UPDATE"
         /\ queue[i].trans_id = queue[j].trans_id
         /\ queue[i].target_node_id = queue[j].target_node_id
         /\ AppliedOrComplete(j))
        => queue[i].status = "COMPLETE"

\* C26: a queued UPDATE job whose record is not on its healthy target is an
\* error of the job: draining it (worker step or recovery) does not report
\* it applied and does not go on to mark it COMPLETE.
C26_UpdateOfMissingRecordFails ==
    [][/\ \A w \in Workers :
             (/\ worker[w].pc = "exec"
              /\ worker'[w] # worker[w]
              /\ worker[w].job[1].operation_type = "UPDATE"
              /\ healthy[worker[w].job[1].target_node_id]
              /\ ~Exists(worker[w].job[1].target_node_id, worker[w].job[1].trans_id))
             => (~worker'[w].success /\ worker'[w].pc # "mark")
       /\ (/\ recovery.pc = "japply"
           /\ recovery' # recovery
           /\ recovery.nodeJobs[recovery.i].operation_type = "UPDATE"
           /\ healthy[recovery.nodeId]
           /\ ~Exists(recovery.nodeId, PayloadTransId(recovery.nodeJobs[recovery.i])))
             => recovery'.pc # "jmark"]_vars

\* C27: retries counts the claims of a job: it goes up by one in every step
\* that moves the job from PENDING to PROCESSING, whether by getNextJob or by
\* the recovery drain, and in no other step.
C27_RetriesCountClaims ==
    [][\A i \in 1..Len(queue) :
          IF queue[i].status = "PENDING" /\ queue'[i].status = "PROCESSING"
          THEN queue'[i].retries = queue[i].retries + 1
          ELSE queue'[i].retries = queue[i].retries]_vars

\* The queue q after job id was claimed: that row PROCESSING with one more
\* retry, every other row as it was.
ClaimedQueue(q, id) ==
    [i \in 1..Len(q) |->
        IF q[i].id = id
        THEN [id |-> q[i].id, target_node_id |-> q[i].target_node_id,
              operation_type |-> q[i].operation_type, trans_id |-> q[i].trans_id,
              payload |-> q[i].payload, status |-> "PROCESSING",
              retries |-> q[i].retries + 1]
        ELSE q[i]]

\* The first query of a getNextJob call runs in this step.
SelectStep(w) == worker[w].pc \in {"idle", "done"} /\ worker'[w] # worker[w]

\* The second query of a getNextJob call runs in this step, and no other
\* caller touched the selected row since the first.
UpdateStep(w) ==
    /\ worker[w].pc = "update"
    /\ worker'[w] # worker[w]
    /\ queue[worker[w].job[1].id] = worker[w].job[1]

\* The selected row is a PENDING row of q than which none is older.
IsOldestPending(q, job) ==
    /\ job.id \in 1..Len(q)
    /\ q[job.id] = job
    /\ job.status = "PENDING"
    /\ \A k \in 1..Len(q) : q[k].status = "PENDING" => job.id <= k

\* C28 as stated: a getNextJob call without interference returns the oldest
\* PENDING job of all targets, moves that job and no other to PROCESSING
\* with retries + 1, and returns null, changing nothing, exactly when no job
\* is PENDING.
C28_ClaimsOldestPending ==
    [][\A w \in Workers :
          /\ SelectStep(w)
                => (/\ queue' = queue
                    /\ (worker'[w].pc = "done") <=> (PendingIdx = {})
                    /\ worker'[w].pc # "done"
                          => (worker'[w].pc = "update"
                              /\ IsOldestPending(queue, worker'[w].job[1])))
          /\ UpdateStep(w)
                => (/\ worker'[w].pc = "probe"
                    /\ worker'[w].job = worker[w].job
                    /\ queue' = ClaimedQueue(queue, worker[w].job[1].id))]_vars

\* C28 amended: as stated, except that the call returns null, changing
\* nothing, exactly when no job is PENDING or one of its two queries on
\* node 0 fails.
C28_ClaimsOldestPendingOrFails ==
    [][\A w \in Workers :
          /\ SelectStep(w)
                => (/\ queue' = queue
                    /\ (worker'[w].pc = "done") <=> (PendingIdx = {} \/ ~healthy[0])
                    /\ worker'[w].pc # "done"
                          => (worker'[w].pc = "update"
                              /\ IsOldestPending(queue, worker'[w].job[1])))
          /\ UpdateStep(w)
                => IF healthy[0]
                   THEN /\ worker'[w].pc = "probe"
                        /\ worker'[w].job = worker[w].job
                        /\ queue' = ClaimedQueue(queue, worker[w].job[1].id)
                   ELSE /\ worker'[w].pc = "done"
                        /\ worker'[w].job = <<>>
                        /\ queue' = queue]_vars

\* getNextJob returned the older of two PENDING jobs, now PROCESSING with one
\* retry, and left the younger one PENDING.
C28_Witness ==
    \E w \in Workers :
        /\ worker[w].pc = "probe"
        /\ Len(queue) = 2
        /\ worker[w].job[1].id = 1
        /\ queue[1].status = "PROCESSING"
        /\ queue[1].retries = 1
        /\ queue[2].status = "PENDING"
        /\ queue[2].retries = 0

\* C29: once a job is enqueued, no claim, completion, worker step or recovery
\* drain changes its id, target node, operation type, record id or payload,
\* and no job leaves the queue.
C29_JobFieldsFrozen ==
    [][\A i \in 1..Len(queue) :
          /\ Len(queue') >= i
          /\ queue'[i].id = queue[i].id
          /\ queue'[i].target_node_id = queue[i].target_node_id
          /\ queue'[i].operation_type = queue[i].operation_type
          /\ queue'[i].trans_id = queue[i].trans_id
          /\ queue'[i].payload = queue[i].payload]_vars

\* A job with a payload that the worker claimed once and the recovery drain
\* completed: status and retries moved, the payload is the one enqueued.
C29_Witness ==
    \E i \in 1..Len(queue) :
        /\ queue[i].status = "COMPLETE"
        /\ queue[i].retries = 1
        /\ queue[i].payload # <<>>
        /\ recovery.queueProcessed > 0
        /\ \E w \in Workers : worker[w].pc = "done" /\ worker[w].jobStatus = "COMPLETE"

\* The number of rows of the queue stored with status s.
Stored(s) == Cardinality({i \in 1..Len(queue) : queue[i].status = s})

\* C30: the counts of a queue-status response are those of the queue it
\* read: pending, processing, completed and failed are the numbers of jobs
\* stored as PENDING, PROCESSING, COMPLETE and FAILED.
C30_SnapshotCounts ==
    [][\A c \in Clients :
          (/\ client'[c].kind = "QUEUE_STATUS"
           /\ client'[c] # client[c]
           /\ client'[c].response.status = 200)
          => (/\ client'[c].result[1].pending = Stored("PENDING")
              /\ client'[c].result[1].processing = Stored("PROCESSING")
              /\ client'[c].result[1].completed = Stored("COMPLETE")
              /\ client'[c].result[1].failed = Stored("FAILED"))]_vars

\* --------------------------------------- claims on the recovery test cases
\* A PENDING INSERT job for record id and target n is in the queue q.
PendingInsert(q, id, n) ==
    \E i \in 1..Len(q) :
        /\ q[i].status = "PENDING"
        /\ q[i].operation_type = "INSERT"
        /\ q[i].trans_id = id
        /\ q[i].target_node_id = n

\* C31: a failed insert into the queue reaches the caller of enqueue: test
\* case 3 reports queuedOperations = 1 only if its enqueue added a PENDING
\* job for the record and target, and reports failure with queuedOperations
\* = 0 when it added none.
C31_EnqueueFailureSurfaced ==
    [][(recovery.pc = "t3enqueue" /\ recovery'.pc = "done")
          => IF Len(queue') = Len(queue) + 1
                /\ PendingInsert(queue', recovery.transId, recovery.nodeId)
             THEN recovery'.result[1].queuedOperations = 1
             ELSE /\ ~recovery'.result[1].success
                  /\ recovery'.result[1].queuedOperations = 0]_vars

\* C32: recovery of the central node is unimplemented: syncNodeAfterRecovery(0)
\* returns in one step with success = false, synced = 0 and the
\* not-yet-implemented error, and that step changes no record on any node
\* and no job of the queue.
C32_CentralSyncUnimplemented ==
    [][(recovery.pc = "scan" /\ recovery.nodeId = 0 /\ recovery' # recovery)
          => /\ recovery'.pc = "done"
             /\ recovery'.sync = <<[success |-> FALSE, synced |-> 0,
                                    errors |-> <<"not yet implemented">>]>>
             /\ db' = db
             /\ queue' = queue]_vars

\* syncNodeAfterRecovery(0) has returned while node 0 was reachable and held
\* records.
C32_Witness ==
    /\ recovery.pc = "done"
    /\ recovery.nodeId = 0
    /\ recovery.sync # <<>>
    /\ healthy[0]
    /\ db[0] # {}

\* The records of node 0 that are more recent than row, by key.
MoreRecent(row) == {x \in db[0] : x.trans_id > row.trans_id}

\* C33: the reconciliation scan is bounded to the RecentWindow most recent
\* records of node 0: a record that the sync inserts on the partition has
\* fewer than RecentWindow more recent records on node 0.
C33_ScanWindowBounded ==
    [][\A n \in Partitions : \A row \in db'[n] \ db[n] :
          recovery.pc = "sinsert" => Cardinality(MoreRecent(row)) < RecentWindow]_vars

\* C34: when the recovery drain for a node has returned, no job of its
\* snapshot is left in status PROCESSING: each is COMPLETE, FAILED or back
\* in PENDING. Stated for the jobs that carry a payload (INSERT, UPDATE),
\* whose apply fails only when a node is lost.
C34_DrainLeavesNoProcessing ==
    (recovery.pc = "done" /\ recovery.testCase = 4)
       => \A k \in 1..Len(recovery.nodeJobs) : \A i \in 1..Len(queue) :
             (queue[i].id = recovery.nodeJobs[k].id /\ queue[i].payload # <<>>)
                => queue[i].status # "PROCESSING"

\* C35: the drain applies a PENDING DELETE job for a healthy partition: when
\* it takes such a job up with node 0 and the partition reachable, the job is
\* not counted as failed.
C35_DrainAppliesDelete ==
    [][(/\ recovery.pc = "claim"
        /\ recovery.nodeJobs[recovery.i].operation_type = "DELETE"
        /\ healthy[0] /\ healthy[recovery.nodeId]
        /\ recovery' # recovery)
          => recovery'.queueFailed = recovery.queueFailed]_vars

\* The job j of the drain's snapshot is the INSERT that test case 3 queued for
\* the record it created.
QueuedByCase3(j) ==
    /\ j.operation_type = "INSERT"
    /\ j.payload # <<>>
    /\ j.payload[1] = TestRow(j.trans_id)

\* C36: after test case 3 queued an INSERT for partition p and test case 4
\* recovers p with success = true, p's copy of the record has the operation
\* and amount of node 0's copy (balance is written with amount): no
\* placeholder row remains as the record's data.
C36_PlaceholderReplaced ==
    [][(RecoveryReturns /\ recovery'.testCase = 4 /\ recovery'.result[1].success)
          => \A k \in 1..Len(recovery'.nodeJobs) :
                QueuedByCase3(recovery'.nodeJobs[k])
                   => \A c \in db'[0] :
                         c.trans_id = recovery'.nodeJobs[k].trans_id
                            => \E r \in db'[recovery'.nodeId] :
                                  /\ r.trans_id = c.trans_id
                                  /\ r.operation = c.operation
                                  /\ r.amount = c.amount]_vars

\* The recovery drain has moved a job to PROCESSING and is working on it.
DrainHolds == recovery.pc \in {"jexists", "jinsert", "japply", "jmark"}

\* C37: no job is executed by both the recovery drain and the worker: while
\* one of them works on a job it moved to PROCESSING, the other is not
\* working on the same job.
C37_DrainAndWorkerExclusive ==
    \A w \in Workers :
        (Holds(w) /\ DrainHolds) => worker[w].job[1].id # recovery.nodeJobs[recovery.i].id

\* C38: idempotent apply under concurrency: when a replicated INSERT and a
\* sync scan for the same record run side by side against a reachable
\* destination, the insert step of each finishes without an error and the
\* destination holds one copy of the record.
C38_ConcurrentInsertIdempotent ==
    [][/\ (client["c1"].pc = "insert" /\ client'["c1"].pc = "done"
           /\ healthy[client["c1"].target])
             => /\ client'["c1"].result[1].errors = <<>>
                /\ Cardinality({r \in db'[client["c1"].target] :
                                  r.trans_id = client["c1"].transId}) = 1
       /\ (recovery.pc = "sinsert" /\ recovery' # recovery /\ healthy[recovery.nodeId])
             => /\ recovery'.pc = "done" => recovery'.sync[1].success
                /\ Cardinality({r \in db'[recovery.nodeId] :
                                  r.trans_id = recovery.rows[recovery.k].trans_id}) = 1]_vars

\* A step of syncNodeAfterRecovery for the partition recovery.nodeId.
SyncStep ==
    /\ recovery.pc \in {"scan", "sexists", "sinsert"}
    /\ recovery.nodeId \in Partitions
    /\ recovery' # recovery

\* C39: syncNodeAfterRecovery(p) changes nothing on node 0, on the other
\* partition or in the queue; on p it keeps every row as it is and only adds
\* rows that are on node 0, route to p and whose trans_id was absent on p;
\* synced grows by the number of rows added and is what the call returns.
C39_SyncFrame ==
    [][SyncStep =>
          LET p == recovery.nodeId
              added == db'[p] \ db[p]
          IN /\ \A n \in Nodes \ {p} : db'[n] = db[n]
             /\ queue' = queue
             /\ db[p] \subseteq db'[p]
             /\ \A r \in added : /\ r \in db[0]
                                  /\ determinePartitionNode(r) = p
                                  /\ ~Exists(p, r.trans_id)
             /\ recovery'.synced = recovery.synced + Cardinality(added)
             /\ recovery'.pc = "done" => recovery'.sync[1].synced = recovery'.synced]_vars

\* A sync of a partition has returned after inserting a record, with a record
\* of the other partition on node 0 that it had to leave alone.
C39_Witness ==
    /\ recovery.pc = "done"
    /\ recovery.nodeId \in Partitions
    /\ recovery.sync # <<>>
    /\ recovery.sync[1].synced >= 1
    /\ \E r \in db[0] : determinePartitionNode(r) # recovery.nodeId

\* C5: a create on node 0 was answered "queued" because its partition was
\* unhealthy; the partition is healthy again and one whole worker step runs:
\* after it the partition holds the record.
C5_QueuedInsertDrained ==
    [][\A c \in Clients : \A w \in Workers :
          (/\ Replicated(c)
           /\ client[c].kind = "POST"
           /\ client[c].nodeId = 0
           /\ InErrors(c, NotHealthy)
           /\ \A n \in Nodes : healthy[n]
           /\ worker[w].pc \in {"idle", "done"}
           /\ worker'[w] # worker[w]
           /\ worker'[w].pc = "done")
          => Cardinality({r \in db'[client[c].target] : r.trans_id = client[c].transId}) = 1]_vars

====
